---- MODULE Spec2Model ----
(***************************************************************************)
(* Model of the DNT table file reader and writer (src/src/lib.rs).         *)
(*                                                                         *)
(* A file is a sequence of bytes (0..255).  A Rust String is modelled as   *)
(* the sequence of its chars (Unicode code points); its len() is the       *)
(* number of bytes of its UTF-8 encoding.  An i32 is a signed integer; an  *)
(* f32 is modelled by its 32 bit pattern, held as the i32 with the same    *)
(* bits (f32::to_bits as i32).  A panic (unwrap                            *)
(* of an Err/None, the panic! of from_u8, an arithmetic overflow in a      *)
(* build with overflow checks, String::insert off a char boundary) ends    *)
(* the operation with status "panic".                                      *)
(***************************************************************************)
EXTENDS Integers, Sequences, FiniteSets, TLC

VARIABLES
    overflow_checks,  \* build profile: TRUE = arithmetic overflow panics (debug), FALSE = wraps (release)
    data,             \* DntFileReader.data : DntTable
    last,             \* the operation that ran last: "new", "read", "edit", "write"
    file,             \* bytes of the reader's file
    rstatus,          \* outcome of the last read: "none", "ok", "panic"
    tags_read,        \* raw type bytes handed to from_u8 by the last read, in order
    table,            \* the DntTable borrowed by the last write
    out,              \* bytes the last write put into the writer's file
    wstatus,          \* outcome of the last write: "none", "ok", "panic"
    tags_written,     \* bytes emitted as column type tags by the last write, in order
    strings_written   \* per write_string call of the last write: the text and the bytes emitted for it

vars == <<overflow_checks, data, last, file, rstatus, tags_read, table, out,
          wstatus, tags_written, strings_written>>

----------------------------------------------------------------------------
(* Bounds of the model *)

\* rows a caller appends to a table
MaxRows == 1

----------------------------------------------------------------------------
(* Machine integers *)

U8 == 256
U16 == 65536
\* 2^24, the weight of the most significant byte of a 32 bit value
B3 == 16777216

\* byteorder read_u16::<LittleEndian> on two bytes
LE16(b0, b1) == b0 + b1 * U8

\* byteorder read_u32::<LittleEndian> on four bytes: a u32, kept as its two 16 bit halves
U32Of(b0, b1, b2, b3) == [lo |-> LE16(b0, b1), hi |-> LE16(b2, b3)]

\* i < n for a loop index i and a u32 n
LessU32(i, n) == (i \div U16 < n.hi) \/ (i \div U16 = n.hi /\ i % U16 < n.lo)

\* I32Of reading the four bytes most significant first
I32OfBigEndian(b0, b1, b2, b3) == b3 + b2 * U8 + b1 * U16 + (IF b0 >= 128 THEN b0 - U8 ELSE b0) * B3

\* byteorder read_i32::<LittleEndian> on four bytes: two's complement
I32Of(b0, b1, b2, b3) == b0 + b1 * U8 + b2 * U16 + (IF b3 >= 128 THEN b3 - U8 ELSE b3) * B3

\* byteorder write_u16::<LittleEndian>
Bytes16(v) == <<v % U8, (v \div U8) % U8>>

\* byteorder write_i32::<LittleEndian> (two's complement), and write_u32 below 2^31
Bytes32(v) == <<v % U8, (v \div U8) % U8, (v \div U16) % U8, (v \div B3) % U8>>

----------------------------------------------------------------------------
(* Rust strings *)

\* char::len_utf8
LenUtf8(cp) == IF cp < 128 THEN 1 ELSE IF cp < 2048 THEN 2 ELSE IF cp < 65536 THEN 3 ELSE 4

\* String::len : bytes of the UTF-8 encoding
RECURSIVE StrLen(_)
StrLen(s) == IF s = <<>> THEN 0 ELSE LenUtf8(Head(s)) + StrLen(Tail(s))

\* byte offset at which char number j (0-based) of s starts
StrOffset(s, j) == StrLen(SubSeq(s, 1, j))

\* String::insert(idx, ch): idx is a byte index and must lie on a char boundary
StrInsert(s, idx, ch) ==
    LET js == {j \in 0..Len(s) : StrOffset(s, j) = idx}
    IN  IF js = {} THEN [ok |-> FALSE, s |-> s]
        ELSE LET j == CHOOSE j \in js : TRUE
             IN  [ok |-> TRUE, s |-> SubSeq(s, 1, j) \o <<ch>> \o SubSeq(s, j + 1, Len(s))]

----------------------------------------------------------------------------
(* Table model *)

\* from_u8 with a default arm instead of the panic
from_u8_default(value) ==
    IF value = 1 THEN "String" ELSE IF value \in 4..5 THEN "Float32" ELSE "Int32"

\* DntDataType::from_u8 ; "panic" is the panic! of the last arm
from_u8(value) ==
    IF value = 1 THEN "String"
    ELSE IF value \in 2..3 THEN "Int32"
    ELSE IF value \in 4..5 THEN "Float32"
    ELSE "panic"

DntColumn(text, data_type, raw_data_type) ==
    [text |-> text, data_type |-> data_type, raw_data_type |-> raw_data_type]

\* DntValue: kind is the variant; s the text of String, v the i32 of Int32 or
\* the bit pattern of Float32
DntString(s) == [kind |-> "String", s |-> s, v |-> 0]
DntInt32(v) == [kind |-> "Int32", s |-> <<>>, v |-> v]
DntFloat32(bits) == [kind |-> "Float32", s |-> <<>>, v |-> bits]

DntTable(head, body) == [head |-> head, body |-> body]

\* the table DntFileReader::new starts with
EmptyTable == DntTable(<<>>, <<>>)

\* the column read() puts at head index 0 : "id"
IdColumn == DntColumn(<<105, 100>>, from_u8(3), 3)

----------------------------------------------------------------------------
(* DntFileReader: the read helpers.  f is the file, p the cursor (bytes     *)
(* before it); each returns ok = FALSE where the unwrap panics.             *)

\* DntFileReader::seek : SeekFrom::Start(amount) succeeds past the end too
seek(amount) == amount

\* DntFileReader::read_byte
read_byte(f, p) ==
    IF p + 1 <= Len(f) THEN [ok |-> TRUE, v |-> f[p + 1], p |-> p + 1]
    ELSE [ok |-> FALSE, v |-> 0, p |-> p]

\* DntFileReader::read_u16
read_u16(f, p) ==
    IF p + 2 <= Len(f) THEN [ok |-> TRUE, v |-> LE16(f[p + 1], f[p + 2]), p |-> p + 2]
    ELSE [ok |-> FALSE, v |-> 0, p |-> p]

\* DntFileReader::read_u32
read_u32(f, p) ==
    IF p + 4 <= Len(f)
    THEN [ok |-> TRUE, v |-> U32Of(f[p + 1], f[p + 2], f[p + 3], f[p + 4]), p |-> p + 4]
    ELSE [ok |-> FALSE, v |-> U32Of(0, 0, 0, 0), p |-> p]

\* DntFileReader::read_i32
read_i32(f, p) ==
    IF p + 4 <= Len(f)
    THEN [ok |-> TRUE, v |-> I32Of(f[p + 1], f[p + 2], f[p + 3], f[p + 4]), p |-> p + 4]
    ELSE [ok |-> FALSE, v |-> 0, p |-> p]

\* DntFileReader::read_f32 : the f32 with the four bytes' bit pattern
read_f32(f, p) == read_i32(f, p)

\* the loop of read_string: result.insert(index, self.read_byte() as char)
RECURSIVE ReadChars(_, _, _, _, _)
ReadChars(f, p, length, index, result) ==
    IF index = length THEN [ok |-> TRUE, v |-> result, p |-> p]
    ELSE LET b == read_byte(f, p)
             ins == StrInsert(result, index, b.v)
         IN  IF ~b.ok \/ ~ins.ok THEN [ok |-> FALSE, v |-> result, p |-> b.p]
             ELSE ReadChars(f, b.p, length, index + 1, ins.s)

\* DntFileReader::read_string
read_string(f, p) ==
    LET length == read_u16(f, p)
    IN  IF ~length.ok THEN [ok |-> FALSE, v |-> <<>>, p |-> p]
        ELSE IF length.v > 0 THEN ReadChars(f, length.p, length.v, 0, <<>>)
        ELSE [ok |-> TRUE, v |-> <<>>, p |-> length.p]

\* read_value ignoring the column's data_type
read_value_untyped(f, p, data_type) ==
    LET r == read_i32(f, p) IN [ok |-> r.ok, v |-> DntInt32(r.v), p |-> r.p]

\* the match of the row loop: one value of the column's data_type
read_value(f, p, data_type) ==
    IF data_type = "String"
    THEN LET r == read_string(f, p) IN [ok |-> r.ok, v |-> DntString(r.v), p |-> r.p]
    ELSE IF data_type = "Int32"
    THEN LET r == read_i32(f, p) IN [ok |-> r.ok, v |-> DntInt32(r.v), p |-> r.p]
    ELSE LET r == read_f32(f, p) IN [ok |-> r.ok, v |-> DntFloat32(r.v), p |-> r.p]

\* the header loop of read: n more wire columns; tags are the bytes given to from_u8
RECURSIVE ReadColumns(_, _, _, _, _)
ReadColumns(f, p, n, head, tags) ==
    IF n <= 0 THEN [ok |-> TRUE, p |-> p, head |-> head, tags |-> tags]
    ELSE LET text == read_string(f, p)
             raw == read_byte(f, text.p)
             data_type == from_u8(raw.v)
         IN  IF ~text.ok \/ ~raw.ok
             THEN [ok |-> FALSE, p |-> p, head |-> head, tags |-> tags]
             ELSE IF data_type = "panic"
             THEN [ok |-> FALSE, p |-> raw.p, head |-> head, tags |-> Append(tags, raw.v)]
             ELSE ReadColumns(f, raw.p, n - 1,
                              Append(head, DntColumn(text.v, data_type, raw.v)),
                              Append(tags, raw.v))

\* the inner loop of the row loop: the values of columns i.. of one row
RECURSIVE ReadRow(_, _, _, _, _)
ReadRow(f, p, head, i, values) ==
    IF i > Len(head) THEN [ok |-> TRUE, p |-> p, values |-> values]
    ELSE LET value == read_value(f, p, head[i].data_type)
         IN  IF ~value.ok THEN [ok |-> FALSE, p |-> p, values |-> values]
             ELSE ReadRow(f, value.p, head, i + 1, Append(values, value.v))

\* the row loop of read: for _ in 0..rows_nb, from iteration Len(body) on
RECURSIVE ReadRows(_, _, _, _, _)
ReadRows(f, p, rows_nb, head, body) ==
    IF ~LessU32(Len(body), rows_nb) THEN [ok |-> TRUE, p |-> p, body |-> body]
    ELSE LET row == ReadRow(f, p, head, 1, <<>>)
         IN  IF ~row.ok THEN [ok |-> FALSE, p |-> p, body |-> body]
             ELSE ReadRows(f, row.p, rows_nb, head, Append(body, [values |-> row.values]))

\* let columns_nb = self.read_u16() + 1 : u16 addition; panics with overflow checks, else wraps
ColumnsNb(count, oc) ==
    IF count + 1 >= U16 /\ oc THEN [ok |-> FALSE, v |-> 0]
    ELSE [ok |-> TRUE, v |-> (count + 1) % U16]

\* The body of DntFileReader::read up to self.data = data.  st is "ok" or
\* "panic"; data is the local table built so far, tags the bytes from_u8 saw.
read_local(f, oc) ==
    LET start == seek(4)
        failed(t, tags) == [st |-> "panic", data |-> t, tags |-> tags]
        data0 == DntTable(<<IdColumn>>, <<>>)
        count == read_u16(f, start)
        columns_nb == ColumnsNb(count.v, oc)
        rows_nb == read_u32(f, count.p)
    IN  IF ~count.ok \/ ~columns_nb.ok \/ ~rows_nb.ok THEN failed(data0, <<>>)
        ELSE LET cols == ReadColumns(f, rows_nb.p, columns_nb.v - 1, data0.head, <<>>)
             IN  IF ~cols.ok THEN failed(DntTable(cols.head, <<>>), cols.tags)
                 ELSE LET rows == ReadRows(f, cols.p, rows_nb.v, cols.head, <<>>)
                      IN  IF ~rows.ok THEN failed(DntTable(cols.head, rows.body), cols.tags)
                          ELSE [st |-> "ok", data |-> DntTable(cols.head, rows.body),
                                tags |-> cols.tags]

\* Commit that filled self.data in place while reading
CommitPartial(old, res) == res.data

\* self.data after read: the assignment self.data = data is reached only when
\* nothing panicked; the local table of a panicked read is dropped
Commit(old, res) == IF res.st = "ok" THEN res.data ELSE old

----------------------------------------------------------------------------
(* DntFileWriter.  A writer state w holds ok (FALSE once a step panicked),  *)
(* out (the bytes put into the file so far; the File is unbuffered, so they *)
(* stay there when a later step panics), tags (the bytes emitted as column  *)
(* type tags) and strs (one entry per write_string call).                   *)

\* write_byte / write_u16 / write_u32 / write_i32 / write_f32 : append the bytes
Emit(w, bytes) == [w EXCEPT !.out = @ \o bytes]

\* the loop of write_string_bytes from index on: value.chars().nth(index).unwrap() as u8,
\* for index in 0..value.len() ; the unwrap panics when index is no char of value
RECURSIVE WriteChars(_, _, _)
WriteChars(value, index, bytes) ==
    IF index >= StrLen(value) THEN [ok |-> TRUE, bytes |-> bytes]
    ELSE IF index + 1 > Len(value) THEN [ok |-> FALSE, bytes |-> bytes]
    ELSE WriteChars(value, index + 1, Append(bytes, value[index + 1] % U8))

\* DntFileWriter::write_string_bytes
write_string_bytes(value) == WriteChars(value, 0, <<>>)

\* DntFileWriter::write_string : value.len() as u16, then the bytes
write_string(value) ==
    LET payload == write_string_bytes(value)
    IN  [ok |-> payload.ok, bytes |-> Bytes16(StrLen(value) % U16) \o payload.bytes]

\* write_string as a step of a write: the text and its bytes are recorded
WriteText(w, value) ==
    LET r == write_string(value)
    IN  [w EXCEPT !.ok = r.ok, !.out = @ \o r.bytes,
                  !.strs = Append(@, [text |-> value, bytes |-> r.bytes])]

\* the header loop body of write: the column's name, then its raw type tag
WriteColumn(w, column) ==
    LET named == WriteText(w, column.text)
    IN  IF ~named.ok THEN named
        ELSE [named EXCEPT !.out = Append(@, column.raw_data_type),
                           !.tags = Append(@, column.raw_data_type)]

\* the header loop of write: columns column_index.. (0-based index, from 1)
RECURSIVE WriteColumns(_, _, _)
WriteColumns(w, head, column_index) ==
    IF ~w.ok \/ column_index >= Len(head) THEN w
    ELSE WriteColumns(WriteColumn(w, head[column_index + 1]), head, column_index + 1)

\* the match of the row loop of write: one value, by its own variant
WriteValue(w, value) ==
    IF value.kind = "String" THEN WriteText(w, value.s)
    ELSE Emit(w, Bytes32(value.v))

\* the inner loop of the row loop: values i.. of one row
RECURSIVE WriteValues(_, _, _)
WriteValues(w, values, i) ==
    IF ~w.ok \/ i > Len(values) THEN w
    ELSE WriteValues(WriteValue(w, values[i]), values, i + 1)

\* the row loop of write: rows i..
RECURSIVE WriteRows(_, _, _)
WriteRows(w, body, i) ==
    IF ~w.ok \/ i > Len(body) THEN w
    ELSE WriteRows(WriteValues(w, body[i].values, 1), body, i + 1)

\* table.head.len() as u16 - 1 : u16 subtraction; panics with overflow checks, else wraps
ColumnCountField(len, oc) ==
    IF len % U16 = 0 /\ oc THEN [ok |-> FALSE, v |-> 0]
    ELSE [ok |-> TRUE, v |-> ((len % U16) - 1) % U16]

\* the closing text "THEND"
ClosingText == <<84, 72, 69, 78, 68>>

\* WriteClosing writing the closing text with write_string (a 16 bit length)
WriteClosingAsString(w) == IF ~w.ok THEN w ELSE WriteText(w, ClosingText)

\* the end of write: the length of the closing text as one byte, then its bytes
WriteClosing(w) ==
    IF ~w.ok THEN w
    ELSE LET r == write_string_bytes(ClosingText)
         IN  [w EXCEPT !.ok = r.ok, !.out = @ \o <<StrLen(ClosingText) % U8>> \o r.bytes]

\* DntFileWriter::write
write(t, oc) ==
    LET w0 == [ok |-> TRUE, out |-> <<0, 0, 0, 0>>, tags |-> <<>>, strs |-> <<>>]
        count == ColumnCountField(Len(t.head), oc)
    IN  IF ~count.ok THEN [w0 EXCEPT !.ok = FALSE]
        ELSE LET w1 == Emit(Emit(w0, Bytes16(count.v)), Bytes32(Len(t.body)))
                 w2 == WriteColumns(w1, t.head, 1)
                 w3 == WriteRows(w2, t.body, 1)
             IN  WriteClosing(w3)

----------------------------------------------------------------------------
(* Inputs *)

\* the bytes of the scenario of the specification: prefix, column count field 0,
\* row count 1, then 04 00 "name" 01 41 00 00 00
ScenarioFile == <<0, 0, 0, 0,  0, 0,  1, 0, 0, 0,  4, 0, 110, 97, 109, 101,  1,  65, 0, 0, 0>>

\* a file declaring three wire columns ("A" tag 2, "Bc" tag 1, "" tag 4) and two rows
ThreeColumnFile ==
    <<0, 0, 0, 0,  3, 0,  2, 0, 0, 0,
      1, 0, 65,  2,    2, 0, 66, 99,  1,    0, 0,  4,
      1, 0, 0, 0,    255, 255, 255, 255,    1, 0, 120,    0, 0, 192, 63,
      2, 0, 0, 0,    0, 0, 0, 128,          0, 0,         1, 0, 192, 255>>

\* a file with one wire column and r rows: the name's bytes, the tag byte, the row bytes
OneColumnFile(name, tag, r, rows) ==
    <<0, 0, 0, 0,  1, 0,  r, 0, 0, 0>> \o <<Len(name), 0>> \o name \o <<tag>> \o rows

\* column names on the wire: empty, ASCII, and bytes above 127 in last and in other positions
WireNames == {<<>>, <<65>>, <<233>>, <<65, 233>>, <<233, 65>>}

\* type tag bytes on the wire: the five known ones and unknown ones around them
WireTags == {0, 1, 2, 3, 4, 5, 6, 255}

\* the bytes of one row of a one-column file whose wire column has the tag: the id, then a value
WireRows(tag) ==
    IF tag = 1 THEN {<<7, 0, 0, 0,  0, 0>>, <<7, 0, 0, 0,  2, 0, 104, 233>>,
                     <<7, 0, 0, 0,  2, 0, 233, 104>>}
    ELSE {<<255, 255, 255, 255,  0, 0, 192, 63>>, <<0, 0, 0, 128,  1, 0, 192, 127>>}

\* files whose column count field is 0 or 65535
CountFiles ==
    { <<0, 0, 0, 0,  0, 0,  0, 0, 0, 0>>,
      <<0, 0, 0, 0,  0, 0,  1, 0, 0, 0,  254, 255, 255, 255>>,
      <<0, 0, 0, 0,  0, 0,  2, 0, 0, 0,  1, 0, 0, 0>>,
      <<0, 0, 0, 0,  255, 255,  0, 0, 0, 0>>,
      <<0, 0, 0, 0,  255, 255,  1, 0, 0, 0,  9, 0, 0, 0>> }

\* a file with no row and one wire column named "K" whose type byte is tag
TagFile(tag) == OneColumnFile(<<75>>, tag, 0, <<>>)

\* one such file for each of the 256 type bytes
TagFiles == {TagFile(tag) : tag \in 0..255}

\* every truncation of f, f included
Truncations(f) == {SubSeq(f, 1, n) : n \in 0..Len(f)}

\* the files a reader is given
Files ==
    {ScenarioFile} \cup CountFiles \cup Truncations(ThreeColumnFile)
    \cup {OneColumnFile(name, tag, 0, <<>>) : name \in WireNames, tag \in WireTags}
    \cup UNION {{OneColumnFile(<<75>>, tag, 1, rows) : rows \in WireRows(tag)} : tag \in 1..5}

\* a value of the variant of data_type; k picks one of two
Sample(data_type, k) ==
    IF data_type = "String" THEN (IF k = 1 THEN DntString(<<104, 105>>) ELSE DntString(<<233>>))
    ELSE IF data_type = "Int32" THEN (IF k = 1 THEN DntInt32(-2) ELSE DntInt32(65))
    ELSE (IF k = 1 THEN DntFloat32(1069547520) ELSE DntFloat32(-4194303))

\* a row with one value per column of head, each of its column's variant
ShapedRow(head, k) == [i \in 1..Len(head) |-> Sample(head[i].data_type, k)]

\* the rows a caller appends: two well shaped ones, one with a Float32 in place of
\* its first value (or alone), one with a value too many
RowChoices(head) ==
    { ShapedRow(head, 1), ShapedRow(head, 2),
      <<DntFloat32(1069547520)>> \o (IF head = <<>> THEN <<>> ELSE Tail(ShapedRow(head, 1))),
      Append(ShapedRow(head, 1), DntInt32(65)) }

----------------------------------------------------------------------------
(* Operations *)

reader_vars == <<file, rstatus, tags_read>>
writer_vars == <<table, out, wstatus, tags_written, strings_written>>

\* a build with or without overflow checks; DntFileReader::new on one of the files F
InitWith(F) ==
    /\ overflow_checks \in BOOLEAN
    /\ file \in F
    /\ data = EmptyTable
    /\ last = "new"
    /\ rstatus = "none"
    /\ tags_read = <<>>
    /\ table = EmptyTable
    /\ out = <<>>
    /\ wstatus = "none"
    /\ tags_written = <<>>
    /\ strings_written = <<>>

Init == InitWith(Files)

\* DntFileReader::read while the reader's file holds the bytes f
ReadBytes(f) ==
    /\ LET res == read_local(f, overflow_checks)
       IN  /\ data' = Commit(data, res)
           /\ rstatus' = res.st
           /\ tags_read' = res.tags
    /\ file' = f
    /\ last' = "read"
    /\ UNCHANGED <<overflow_checks, writer_vars>>

\* read of the reader's file
Read == ReadBytes(file)

\* read after the bytes of the last write have become the reader's file
ReadBack == wstatus # "none" /\ ReadBytes(out)

\* the caller appends a row to the pub body, through data()
PushRow ==
    /\ Len(data.body) < MaxRows
    /\ \E values \in RowChoices(data.head) :
           data' = [data EXCEPT !.body = Append(@, [values |-> values])]
    /\ last' = "edit"
    /\ UNCHANGED <<overflow_checks, reader_vars, writer_vars>>

\* the caller empties the pub head, through data()
ClearHead ==
    /\ data.head # <<>>
    /\ data' = [data EXCEPT !.head = <<>>]
    /\ last' = "edit"
    /\ UNCHANGED <<overflow_checks, reader_vars, writer_vars>>

\* DntFileWriter::new on an empty file, then write(reader.data())
Write ==
    /\ LET w == write(data, overflow_checks)
       IN  /\ out' = w.out
           /\ wstatus' = IF w.ok THEN "ok" ELSE "panic"
           /\ tags_written' = w.tags
           /\ strings_written' = w.strs
    /\ table' = data
    /\ last' = "write"
    /\ UNCHANGED <<overflow_checks, data, reader_vars>>

Next == Read \/ ReadBack \/ PushRow \/ ClearHead \/ Write

Spec == Init /\ [][Next]_vars

\* The reader alone, on a file with one wire column of any of the 256 type bytes
InitTag == InitWith(TagFiles)

NextTag == Read

SpecTag == InitTag /\ [][NextTag]_vars

----------------------------------------------------------------------------
(* Properties *)

\* the raw type tags of the wire columns of t (head index 1 on)
WireTagsOf(t) == [i \in 1..(Len(t.head) - 1) |-> t.head[i + 1].raw_data_type]

IsPrefix(a, b) == Len(a) <= Len(b) /\ SubSeq(b, 1, Len(a)) = a

\* the shape invariant of a table: as many values in each row as columns, each of
\* its column's variant
RowsShaped(t) ==
    \A r \in 1..Len(t.body) :
        /\ Len(t.body[r].values) = Len(t.head)
        /\ \A i \in 1..Len(t.head) : t.body[r].values[i].kind = t.head[i].data_type

\* what write expects of its caller
WellFormed(t) == t.head # <<>> /\ RowsShaped(t)

\* a well formed table whose first column is the id column
RoundTripTable(t) == WellFormed(t) /\ t.head[1] = IdColumn

\* the table with the id column alone and no row
IdOnlyTable == DntTable(<<IdColumn>>, <<>>)

\* the sixteen bytes 00 00 00 00, 00 00, 00 00 00 00, 05 "THEND"
EmptyEncoding == <<0, 0, 0, 0,  0, 0,  0, 0, 0, 0,  5, 84, 72, 69, 78, 68>>

\* the column count field and the row count field of the reader's file
CountField == LE16(file[5], file[6])
RowCountField == U32Of(file[7], file[8], file[9], file[10])

\* C1: round trip. Every write of a well formed table that starts with the id
\* column succeeds, and a read of the written bytes succeeds with a table equal
\* to the written one, whatever the texts are.
RoundTripIdentity ==
    (wstatus # "none" /\ RoundTripTable(table)) =>
        /\ wstatus = "ok"
        /\ (last = "read" /\ file = out) => (rstatus = "ok" /\ data = table)

\* C2: tag preservation. A write of a table decoded by a successful read emits,
\* for every wire column, exactly the type byte that was read for it (one of
\* 1..5), in column order: 2 as 2 and 4 as 4.
TagPreservation ==
    (last = "write" /\ rstatus = "ok" /\ table.head # <<>>) =>
        /\ tags_written = tags_read
        /\ \A i \in 1..Len(tags_read) : tags_read[i] \in 1..5

\* What does hold of the tags: a successful read retains each wire column's type
\* byte as the column's raw tag; every type tag a write emits is the raw tag of
\* its column, in column order, and a write that completes emits all of them.
EmittedTagsRetained ==
    /\ (last = "read" /\ rstatus = "ok") =>
           (WireTagsOf(data) = tags_read /\ \A i \in 1..Len(tags_read) : tags_read[i] \in 1..5)
    /\ wstatus # "none" => IsPrefix(tags_written, WireTagsOf(table))
    /\ (wstatus = "ok" /\ table.head # <<>>) => tags_written = WireTagsOf(table)
    /\ (wstatus = "ok" /\ table.head # <<>> /\ rstatus = "ok") => tags_written = tags_read

\* C3: type tag resolution, over all 256 type bytes. A read of a file whose one
\* wire column has the type byte t succeeds with the column typed Text for 1,
\* Int32 for 2 and 3, Float32 for 4 and 5, keeping t; for every other t the read
\* fails and yields no table.
TagResolution ==
    \A t \in 0..255 :
        (last = "read" /\ file = TagFile(t)) =>
            /\ t = 1 => (rstatus = "ok" /\ data.head[2].data_type = "String")
            /\ t \in 2..3 => (rstatus = "ok" /\ data.head[2].data_type = "Int32")
            /\ t \in 4..5 => (rstatus = "ok" /\ data.head[2].data_type = "Float32")
            /\ t \in 1..5 => (Len(data.head) = 2 /\ data.head[2].raw_data_type = t)
            /\ t \notin 1..5 => (rstatus = "panic" /\ data = EmptyTable)
            /\ tags_read = <<t>>

\* the read of a column header with type byte 6 has failed
TagResolutionWitness ==
    last = "read" /\ file = TagFile(6) /\ rstatus = "panic" /\ tags_read = <<6>>

\* C4: a failed decode is atomic. A read of a file cut short anywhere (inside a
\* count, a string length, a string, a type tag or a 4-byte value) fails, and a
\* read that fails leaves the reader's table exactly as it was before the call.
DecodeFailureAtomic ==
    /\ [](\A n \in 0..(Len(ThreeColumnFile) - 1) :
              (last = "read" /\ file = SubSeq(ThreeColumnFile, 1, n)) => rstatus = "panic")
    /\ [][(last' = "read" /\ rstatus' = "panic") => data' = data]_vars

\* a read has failed after the decode had built a wire column, and the reader
\* still holds the earlier table with its rows
DecodeFailureWitness ==
    /\ last = "read" /\ rstatus = "panic"
    /\ tags_read # <<>>
    /\ data.head # <<>> /\ data.body # <<>>

\* C5: the empty table. A write of the table with the id column alone and no
\* row emits exactly the sixteen bytes 00 00 00 00, 00 00, 00 00 00 00, 05
\* "THEND", and a read of these bytes yields that table.
EmptyTableEncoding ==
    /\ (wstatus # "none" /\ table = IdOnlyTable) => (wstatus = "ok" /\ out = EmptyEncoding)
    /\ (last = "read" /\ file = EmptyEncoding) => (rstatus = "ok" /\ data = IdOnlyTable)

\* the sixteen bytes written for the empty table have been read back
EmptyTableWitness ==
    /\ last = "read" /\ file = EmptyEncoding /\ data = IdOnlyTable
    /\ wstatus = "ok" /\ table = IdOnlyTable /\ out = EmptyEncoding

\* C6 as stated: the read of the scenario bytes yields the id column alone and
\* one row holding Int32(65).
ScenarioAsStated ==
    (last = "read" /\ file = ScenarioFile) =>
        (rstatus = "ok" /\ data = DntTable(<<IdColumn>>, <<[values |-> <<DntInt32(65)>>]>>))

\* C6, amended: the read of the scenario bytes yields the id column alone and
\* one row holding Int32(1634598916), the bytes 04 00 6E 61 that follow the row
\* count; no wire column is decoded.
ScenarioDecoded ==
    (last = "read" /\ file = ScenarioFile) =>
        /\ rstatus = "ok"
        /\ data = DntTable(<<IdColumn>>, <<[values |-> <<DntInt32(1634598916)>>]>>)
        /\ tags_read = <<>>

\* the scenario bytes have been read
ScenarioWitness ==
    last = "read" /\ file = ScenarioFile /\ rstatus = "ok" /\ Len(data.body) = 1

\* C7: implicit id column and counts. After a successful read of a file whose
\* column count field is C and row count field is R, the header has C + 1
\* columns, the first being the id column and the others the wire columns in
\* wire order, and the body has R rows.
ImplicitIdAndCounts ==
    (last = "read" /\ rstatus = "ok") =>
        /\ Len(data.head) = CountField + 1
        /\ data.head[1] = IdColumn
        /\ WireTagsOf(data) = tags_read
        /\ RowCountField.hi = 0 /\ RowCountField.lo = Len(data.body)

\* C8: string format on write. For every text the encoder wrote, the bytes are
\* the text's byte length as 16 bits little endian, then exactly that many
\* bytes, one per character.
StringFormatOnWrite ==
    \A k \in 1..Len(strings_written) :
        LET text == strings_written[k].text
            bytes == strings_written[k].bytes
        IN  /\ Len(bytes) = 2 + StrLen(text)
            /\ LE16(bytes[1], bytes[2]) = StrLen(text)
            /\ \A j \in 1..Len(text) : bytes[2 + j] = text[j] % U8

\* C9: decoded tables satisfy the shape invariant. After a successful read every
\* row has as many values as the header has columns, each value is of its
\* column's semantic type, and that type is the resolution of the column's raw tag.
DecodedTableShape ==
    (last = "read" /\ rstatus = "ok") =>
        /\ RowsShaped(data)
        /\ \A i \in 1..Len(data.head) :
               data.head[i].data_type = from_u8(data.head[i].raw_data_type)

\* a table of four columns of the three types and two rows has been read
DecodedTableWitness ==
    /\ last = "read" /\ rstatus = "ok"
    /\ Len(data.head) = 4 /\ Len(data.body) = 2
    /\ {data.head[i].data_type : i \in 1..4} = {"String", "Int32", "Float32"}

\* C10: encoder precondition violations are reported. A write of a table with
\* an empty header, or with a row of another length than the header, or with a
\* value of another variant than its column, never completes with success.
EncoderRejectsMalformed ==
    (wstatus # "none" /\ ~WellFormed(table)) => wstatus = "panic"

====
